---- MODULE Spec2Model ----
(***************************************************************************)
(* A model of generate_master_index.py: the paginated repository listing,  *)
(* the recursive directory walk, the per-file commit lookup, the sort and  *)
(* the rendering of the page (Spec); the relative-time formatter on its    *)
(* own (SpecFmt); and the script embedded in the rendered page (SpecUI).   *)
(*                                                                         *)
(* Text that the program inspects (lower-casing, extension splitting,      *)
(* substring search) is a sequence of one-character strings.  An instant   *)
(* is [sec, us] (whole seconds since the epoch, microseconds), a           *)
(* timedelta is Python's normalised [days, seconds, microseconds].         *)
(***************************************************************************)
EXTENDS Integers, Sequences, FiniteSets, TLC

VARIABLES
  pc,            \* position of generate_master_html_index
  page,          \* get_github_repos: next page to request
  repos,         \* get_github_repos: repositories collected so far
  repo_idx,      \* index of the repository being scanned (for repo in repos)
  files,         \* get_repo_files result for the current repository
  file_idx,      \* index of the file whose record is built next
  all_files,     \* the aggregated file records
  now,           \* last reading of the clock (datetime.now)
  console,       \* what was printed
  requests,      \* history of the network calls made, in order
  html,          \* content of output_file, NoFile until written
  fileList,      \* browser: the <li> items of #fileList, in DOM order
  visibleCount,  \* browser: textContent of #visibleCount
  searchInput,   \* browser: value of #searchInput
  currentFilter, \* browser: let currentFilter
  currentSort,   \* browser: let currentSort
  delta,         \* formatter: the timedelta given to format_time_since
  result         \* formatter: the string returned

vars == <<pc, page, repos, repo_idx, files, file_idx, all_files, now, console,
          requests, html, fileList, visibleCount, searchInput, currentFilter,
          currentSort, delta, result>>

pipeVars == <<pc, page, repos, repo_idx, files, file_idx, all_files, now,
              console, requests, html>>
uiVars   == <<fileList, visibleCount, searchInput, currentFilter, currentSort>>
fmtVars  == <<delta, result>>

-----------------------------------------------------------------------------
(* Bounds of the model *)

MaxPages     == 2   \* pages for which the server still has repositories
MaxCommitSec == 1   \* commit dates are whole seconds 0..MaxCommitSec
MaxClockSec  == 1   \* the clock is never read past this second
MaxDays      == 2   \* formatter: largest days field of the timedelta
MaxItems     == 2   \* browser: number of entries of the rendered page

\* microseconds in a second: the resolution of datetime and timedelta
UsPerSec == 1000 * 1000

\* values of their own kind: no file written, Python's None
NoFile == [written |-> FALSE]
None   == [none |-> TRUE]

-----------------------------------------------------------------------------
(* Sequences *)

Range(s) == {s[i] : i \in DOMAIN s}

\* t occurs in s as a contiguous run (str.includes / in); "" is in everything
includes(s, t) ==
  \E i \in 0..(Len(s) - Len(t)) : \A j \in 1..Len(t) : s[i + j] = t[j]

\* str.lower() / toLowerCase() on the letters the model uses
LowerChar(c) ==
  CASE c = "A" -> "a" [] c = "B" -> "b" [] c = "P" -> "p" [] c = "R" -> "r"
    [] OTHER -> c

lower(s) == [i \in DOMAIN s |-> LowerChar(s[i])]

\* os.path.splitext(name)[1]: from the last dot on, unless that dot has only
\* dots (or nothing) before it
splitext_ext(name) ==
  LET dots == {i \in DOMAIN name : name[i] = "."} IN
  IF dots = {} THEN <<>>
  ELSE LET d == CHOOSE i \in dots : \A k \in dots : k <= i IN
       IF \E k \in 1..(d - 1) : name[k] # "."
       THEN SubSeq(name, d, Len(name))
       ELSE <<>>

-----------------------------------------------------------------------------
(* Time *)

Instant(s, u) == [sec |-> s, us |-> u]

\* a < b, a <= b on datetimes
Before(a, b)   == a.sec < b.sec \/ (a.sec = b.sec /\ a.us < b.us)
NotAfter(a, b) == a = b \/ Before(a, b)

\* datetime - datetime: a timedelta, normalised as Python stores it
Minus(a, b) ==
  LET borrowU == IF a.us < b.us THEN 1 ELSE 0
      u  == a.us - b.us + borrowU * UsPerSec
      s0 == a.sec - b.sec - borrowU
  IN [days |-> s0 \div 86400, seconds |-> s0 % 86400, microseconds |-> u]

\* int(delta.total_seconds()): truncation toward zero
total_seconds_int(d) ==
  LET whole == d.days * 86400 + d.seconds IN
  IF whole < 0 /\ d.microseconds > 0 THEN whole + 1 ELSE whole

\* the plural with the slip that one is plural too
plural_s_from_one(n) == IF n >= 1 THEN "s" ELSE ""

\* the 's' if n > 1 else '' of the three f-strings
plural_s(n) == IF n > 1 THEN "s" ELSE ""

\* format_time_since with the slip that the hour boundary belongs to minutes
format_time_since_le(d) ==
  LET seconds == total_seconds_int(d) IN
  IF seconds < 60 THEN "Just now"
  ELSE IF seconds <= 3600 THEN
    LET minutes == seconds \div 60 IN
    ToString(minutes) \o " minute" \o plural_s(minutes) \o " ago"
  ELSE IF seconds < 86400 THEN
    LET hours == seconds \div 3600 IN
    ToString(hours) \o " hour" \o plural_s(hours) \o " ago"
  ELSE
    LET days == seconds \div 86400 IN
    ToString(days) \o " day" \o plural_s(days) \o " ago"

format_time_since(d) ==
  LET seconds == total_seconds_int(d) IN
  IF seconds < 60 THEN "Just now"
  ELSE IF seconds < 3600 THEN
    LET minutes == seconds \div 60 IN
    ToString(minutes) \o " minute" \o plural_s(minutes) \o " ago"
  ELSE IF seconds < 86400 THEN
    LET hours == seconds \div 3600 IN
    ToString(hours) \o " hour" \o plural_s(hours) \o " ago"
  ELSE
    LET days == seconds \div 86400 IN
    ToString(days) \o " day" \o plural_s(days) \o " ago"

\* datetime.strptime(commit_date, "%Y-%m-%dT%H:%M:%SZ"): whole seconds
strptime(commit_date) == Instant(commit_date, 0)

\* datetime.timestamp(): seconds as a float, written into data-updated
timestamp(t) == [whole |-> t.sec, frac |-> t.us]

\* parseFloat(b) - parseFloat(a) on two data-updated values: its sign
CompareUpdated(a, b) ==
  IF a.whole # b.whole THEN (IF a.whole < b.whole THEN -1 ELSE 1)
  ELSE IF a.frac # b.frac THEN (IF a.frac < b.frac THEN -1 ELSE 1)
  ELSE 0

-----------------------------------------------------------------------------
(* The remote side: what the hosting API holds.  Two repositories; the     *)
(* first has a sub-directory with a dot-file, listed before a file of the  *)
(* root; the second a symlink and a file whose size is not given.          *)

RepoA == <<"R", "1">>
RepoB == <<"r", "2">>
RepoNames == {RepoA, RepoB}

Root == <<>>
DirD == <<"d">>

Contents(repo_name, path) ==
  IF repo_name = RepoA /\ path = Root THEN
    << [type |-> "dir", name |-> <<"d">>, path |-> DirD],
       [type |-> "file", name |-> <<"A", ".", "P">>,
        path |-> <<"A", ".", "P">>, size |-> 2048] >>
  ELSE IF repo_name = RepoA /\ path = DirD THEN
    << [type |-> "file", name |-> <<".", "r">>,
        path |-> <<"d", "/", ".", "r">>, size |-> 0] >>
  ELSE IF repo_name = RepoB /\ path = Root THEN
    << [type |-> "symlink", name |-> <<"l">>, path |-> <<"l">>],
       [type |-> "file", name |-> <<"a", ".", "p">>,
        path |-> <<"a", ".", "p">>] >>
  ELSE <<>>

DirPaths(repo_name) == IF repo_name = RepoA THEN {Root, DirD} ELSE {Root}

html_url(repo_name, item) == <<repo_name, item.path>>

\* Outcomes of requests.get(...): the call raises, or a response arrives
Raise == [raised |-> TRUE]
ErrorStatuses == {403}
ErrorResponses == {[status |-> st] : st \in ErrorStatuses}

\* sequences without repetition of at most two of the names in S
DistinctSeqs(S) ==
  {<<>>} \cup {<<a>> : a \in S} \cup {p \in S \X S : p[1] # p[2]}

\* What the server may answer to the request for page p of the listing: it
\* lists each repository once, and has nothing left after page MaxPages
RepoResponses(p, listed) ==
  {Raise} \cup ErrorResponses
  \cup {[status |-> 200, data |-> [i \in DOMAIN names |-> [name |-> names[i]]]] :
          names \in IF p <= MaxPages
                    THEN DistinctSeqs(RepoNames \ {r.name : r \in Range(listed)})
                    ELSE {<<>>}}

\* What it may answer to a directory listing
DirResponses(repo_name, path) ==
  {Raise} \cup ErrorResponses
  \cup {[status |-> 200, items |-> Contents(repo_name, path)]}

\* What it may answer to the request for the last commit of a file
CommitResponses ==
  {Raise} \cup ErrorResponses
  \cup {[status |-> 200, commits |-> <<>>]}
  \cup {[status |-> 200, commits |-> <<[date |-> s]>>] : s \in 0..MaxCommitSec}

\* The clock does not run backwards and is read at most half a second later
ClockReadings(last) ==
  {t \in {last,
          IF last.us = 0 THEN Instant(last.sec, UsPerSec \div 2)
                         ELSE Instant(last.sec + 1, 0)} :
     NotAfter(t, Instant(MaxClockSec, 0))}

-----------------------------------------------------------------------------
(* get_repo_files: the recursive walk, under the answers net[path]         *)

\* an entry of the history of network calls
Call(stage, repo_name, path, resp) ==
  [stage |-> stage, repo |-> repo_name, path |-> path, resp |-> resp]

\* a line on the console
Line(msg, args) == [msg |-> msg, args |-> args]

RECURSIVE get_repo_files(_, _, _)
RECURSIVE walk_items(_, _, _, _)

\* walk_items with the slip that a sub-directory whose listing fails ends the
\* loop over the items of its parent
walk_items_abort(repo_name, items, net, acc) ==
  IF items = <<>> THEN acc
  ELSE
    LET item == Head(items) IN
    IF item.type = "file" THEN
      walk_items(repo_name, Tail(items), net,
                 [acc EXCEPT !.files = Append(@, item)])
    ELSE IF item.type = "dir" THEN
      LET sub  == get_repo_files(repo_name, item.path, net)
          next == [files |-> acc.files \o sub.files,
                   out   |-> acc.out \o sub.out,
                   calls |-> acc.calls \o sub.calls]
      IN IF net[item.path] = Raise \/ net[item.path].status # 200
         THEN next
         ELSE walk_items(repo_name, Tail(items), net, next)
    ELSE walk_items(repo_name, Tail(items), net, acc)

\* for item in items: ... ; acc is (files, what was printed, calls made)
walk_items(repo_name, items, net, acc) ==
  IF items = <<>> THEN acc
  ELSE
    LET item == Head(items)
        next ==
          IF item.type = "file" THEN
            [acc EXCEPT !.files = Append(@, item)]
          ELSE IF item.type = "dir" THEN
            LET sub == get_repo_files(repo_name, item.path, net) IN
            [files |-> acc.files \o sub.files,
             out   |-> acc.out \o sub.out,
             calls |-> acc.calls \o sub.calls]
          ELSE acc
    IN walk_items(repo_name, Tail(items), net, next)

get_repo_files(repo_name, path, net) ==
  LET resp == net[path]
      call == <<Call("contents", repo_name, path, resp)>>
  IN
  IF resp = Raise THEN
    [files |-> <<>>,
     out   |-> <<Line("Error fetching files from", <<repo_name, path>>)>>,
     calls |-> call]
  ELSE IF resp.status # 200 THEN
    [files |-> <<>>, out |-> <<>>, calls |-> call]
  ELSE
    walk_items(repo_name, resp.items, net,
               [files |-> <<>>, out |-> <<>>, calls |-> call])

-----------------------------------------------------------------------------
(* get_file_last_commit: the commit time, or None and what was printed     *)

get_file_last_commit(file_path, resp) ==
  IF resp = Raise THEN
    [value |-> None, out |-> <<Line("Error fetching commit for", <<file_path>>)>>]
  ELSE IF resp.status = 200 /\ resp.commits # <<>> THEN
    [value |-> strptime(resp.commits[1].date), out |-> <<>>]
  ELSE
    [value |-> None, out |-> <<>>]

-----------------------------------------------------------------------------
(* all_files.sort(key=updated_at, reverse=True): stable, descending        *)

\* the insertion of a sort that is not stable: x goes before its equals
InsertDesc_unstable(sorted, x) ==
  LET k == Cardinality({i \in DOMAIN sorted :
                          Before(x.updated_at, sorted[i].updated_at)})
  IN SubSeq(sorted, 1, k) \o <<x>> \o SubSeq(sorted, k + 1, Len(sorted))

InsertDesc(sorted, x) ==
  LET k == Cardinality({i \in DOMAIN sorted :
                          NotAfter(x.updated_at, sorted[i].updated_at)})
  IN SubSeq(sorted, 1, k) \o <<x>> \o SubSeq(sorted, k + 1, Len(sorted))

RECURSIVE SortInto(_, _)
SortInto(sorted, rest) ==
  IF rest = <<>> THEN sorted
  ELSE SortInto(InsertDesc(sorted, Head(rest)), Tail(rest))

sort_updated_desc(records) == SortInto(<<>>, records)

-----------------------------------------------------------------------------
(* Rendering *)

\* one <li class="file-item"> with its data attributes and its texts
RenderItem(file, at) ==
  [ext        |-> lower(splitext_ext(file.name)),
   repo       |-> file.repo,
   name       |-> lower(file.name),
   path       |-> lower(file.path),
   updated    |-> timestamp(file.updated_at),
   size       |-> file.size,
   href       |-> file.url,
   text       |-> file.name,
   time_since |-> format_time_since(Minus(at, file.updated_at))]

RenderPage(repo_list, records, at) ==
  [repositories |-> Len(repo_list),
   total        |-> Len(records),
   visible      |-> Len(records),
   items        |-> [i \in DOMAIN records |-> RenderItem(records[i], at)]]

-----------------------------------------------------------------------------
(* generate_master_html_index, one step per loop turn                      *)

NoDelta == [days |-> 0, seconds |-> 0, microseconds |-> 0]

IdlePipe ==
  /\ pc = "idle" /\ page = 1 /\ repos = <<>> /\ repo_idx = 1 /\ files = <<>>
  /\ file_idx = 1 /\ all_files = <<>> /\ now = Instant(0, 0)
  /\ console = <<>> /\ requests = <<>> /\ html = NoFile
IdleUI  == /\ fileList = <<>> /\ visibleCount = 0 /\ searchInput = <<>>
           /\ currentFilter = <<"a", "l", "l">> /\ currentSort = "updated"
IdleFmt == delta = NoDelta /\ result = ""

Init ==
  /\ pc = "repos"
  /\ page = 1
  /\ repos = <<>>
  /\ repo_idx = 1
  /\ files = <<>>
  /\ file_idx = 1
  /\ all_files = <<>>
  /\ now = Instant(0, UsPerSec \div 2)
  /\ console = <<>>
  /\ requests = <<>>
  /\ html = NoFile
  /\ IdleUI
  /\ IdleFmt

\* get_github_repos with the slip that a non-success status returns nothing
\* instead of what was collected
get_github_repos_drop(p, acc, resp) ==
  IF resp = Raise THEN
    [next |-> "raised", page |-> p, repos |-> acc, out |-> <<>>]
  ELSE IF resp.status # 200 THEN
    [next |-> "return", page |-> p, repos |-> <<>>,
     out  |-> <<Line("Error fetching repos", <<resp.status>>)>>]
  ELSE IF resp.data = <<>> THEN
    [next |-> "return", page |-> p, repos |-> acc, out |-> <<>>]
  ELSE
    [next |-> "loop", page |-> p + 1, repos |-> acc \o resp.data, out |-> <<>>]

\* get_github_repos: one turn of `while True` on the answer to the request
\* for page p, with acc collected so far.  An exception of requests.get or
\* response.json() is caught nowhere and leaves the program
get_github_repos(p, acc, resp) ==
  IF resp = Raise THEN
    [next |-> "raised", page |-> p, repos |-> acc, out |-> <<>>]
  ELSE IF resp.status # 200 THEN
    [next |-> "return", page |-> p, repos |-> acc,
     out  |-> <<Line("Error fetching repos", <<resp.status>>)>>]
  ELSE IF resp.data = <<>> THEN
    [next |-> "return", page |-> p, repos |-> acc, out |-> <<>>]
  ELSE
    [next |-> "loop", page |-> p + 1, repos |-> acc \o resp.data, out |-> <<>>]

GetReposPage ==
  /\ pc = "repos"
  /\ \E resp \in RepoResponses(page, repos) :
       LET hello == IF page = 1
                    THEN <<Line("Fetching repositories for", <<>>)>> ELSE <<>>
           turn  == get_github_repos(page, repos, resp)
           found == IF turn.next = "return"
                    THEN <<Line("Found repositories", <<Len(turn.repos)>>)>>
                    ELSE <<>>
       IN
       /\ requests' = Append(requests, [stage |-> "repos", page |-> page,
                                        resp |-> resp])
       /\ console' = console \o hello \o turn.out \o found
       /\ page' = turn.page
       /\ repos' = turn.repos
       /\ pc' = CASE turn.next = "raised" -> "raised"
                  [] turn.next = "return" -> "scan"
                  [] turn.next = "loop"   -> "repos"
  /\ UNCHANGED <<repo_idx, files, file_idx, all_files, now, html>>
  /\ UNCHANGED <<uiVars, fmtVars>>

\* for repo in repos: files = get_repo_files(username, repo_name)
ScanRepo ==
  /\ pc = "scan"
  /\ repo_idx <= Len(repos)
  /\ LET repo_name == repos[repo_idx].name IN
     \E net \in [DirPaths(repo_name) ->
                   UNION {DirResponses(repo_name, p) : p \in DirPaths(repo_name)}] :
       /\ \A p \in DirPaths(repo_name) : net[p] \in DirResponses(repo_name, p)
       /\ LET got == get_repo_files(repo_name, Root, net) IN
          /\ files' = got.files
          /\ console' = console \o <<Line("Scanning repository", <<repo_name>>)>>
                                \o got.out
          /\ requests' = requests \o got.calls
          /\ file_idx' = 1
          /\ IF got.files = <<>>
             THEN pc' = "scan" /\ repo_idx' = repo_idx + 1
             ELSE pc' = "commits" /\ repo_idx' = repo_idx
  /\ UNCHANGED <<page, repos, all_files, now, html>>
  /\ UNCHANGED <<uiVars, fmtVars>>

\* or_now with the slip that the fallback is the epoch, not the clock
or_now_epoch(commit_time, t) ==
  IF commit_time # None THEN commit_time ELSE Instant(0, 0)

\* commit_time or datetime.now(timezone.utc), the clock reading t
or_now(commit_time, t) == IF commit_time # None THEN commit_time ELSE t

\* The record generate_master_html_index builds of a file
FileInfo(repo_name, file, updated_at) ==
  [repo       |-> repo_name,
   name       |-> file.name,
   path       |-> file.path,
   url        |-> html_url(repo_name, file),
   size       |-> IF "size" \in DOMAIN file THEN file.size ELSE 0,
   updated_at |-> updated_at]

\* for file in files: the commit lookup and the record appended to all_files
BuildFileInfo ==
  /\ pc = "commits"
  /\ LET repo_name == repos[repo_idx].name
         file == files[file_idx]
     IN
     \E resp \in CommitResponses, t \in ClockReadings(now) :
       LET got == get_file_last_commit(file.path, resp)
           commit_time == got.value
       IN
       /\ commit_time # None => t = now     \* `or`: the clock is not read
       /\ now' = t
       /\ requests' = Append(requests,
                             Call("commits", repo_name, file.path, resp))
       /\ console' = console \o got.out
       /\ all_files' = Append(all_files,
            FileInfo(repo_name, file, or_now(commit_time, t)))
       /\ IF file_idx < Len(files)
          THEN /\ file_idx' = file_idx + 1
               /\ UNCHANGED <<pc, repo_idx>>
          ELSE /\ pc' = "scan"
               /\ repo_idx' = repo_idx + 1
               /\ file_idx' = file_idx
  /\ UNCHANGED <<page, repos, files, html>>
  /\ UNCHANGED <<uiVars, fmtVars>>

\* all_files.sort(...), the page built from it, and the file written
SortAndRender ==
  /\ pc = "scan"
  /\ repo_idx > Len(repos)
  /\ \E t \in ClockReadings(now) :
       LET sorted == sort_updated_desc(all_files) IN
       /\ all_files' = sorted
       /\ now' = t
       /\ html' = [written |-> TRUE] @@ RenderPage(repos, sorted, t)
       /\ console' = console
            \o <<Line("Total files found", <<Len(sorted)>>),
                 Line("Master index generated", <<>>),
                 Line("repositories scanned", <<Len(repos)>>),
                 Line("total files indexed", <<Len(sorted)>>)>>
  /\ pc' = "done"
  /\ UNCHANGED <<page, repos, repo_idx, files, file_idx, requests>>
  /\ UNCHANGED <<uiVars, fmtVars>>

Next == GetReposPage \/ ScanRepo \/ BuildFileInfo \/ SortAndRender

Spec == Init /\ [][Next]_vars

-----------------------------------------------------------------------------
(* format_time_since on its own.  The timedeltas tried: every second of    *)
(* every day from -1 to MaxDays, with no and with the largest microsecond  *)
(* part.                                                                   *)

InitFmt ==
  /\ IdlePipe
  /\ IdleUI
  /\ delta \in [days : (-1)..MaxDays, seconds : 0..86399,
                 microseconds : {0, UsPerSec - 1}]
  /\ result = ""

Format ==
  /\ result = ""
  /\ result' = format_time_since(delta)
  /\ UNCHANGED <<delta, pipeVars, uiVars>>

NextFmt == Format

SpecFmt == InitFmt /\ [][NextFmt]_vars

-----------------------------------------------------------------------------
(* The script of the rendered page                                         *)

All == <<"a", "l", "l">>

\* what can be typed into the search box
SearchTerms == {<<>>, <<"a">>, <<"A">>, <<"R">>, <<".", "p">>, <<"/">>, <<"x">>}

SortKeys == {"updated", "name", "repo", "size"}

Shown(li) == li.display # "none"

\* filterFiles with the slip that the search term is not lower-cased
filterFiles_raw(items, filter, value) ==
  LET searchTerm == value
      matches(item) ==
        LET repo == lower(item.repo)
            matchesFilter == filter = All \/ item.ext = filter
            matchesSearch == \/ includes(item.name, searchTerm)
                             \/ includes(item.path, searchTerm)
                             \/ includes(repo, searchTerm)
        IN matchesFilter /\ matchesSearch
      shown == [i \in DOMAIN items |->
                 [items[i] EXCEPT !.display =
                    IF matches(items[i]) THEN "block" ELSE "none"]]
  IN [items |-> shown,
      count |-> Cardinality({i \in DOMAIN shown : shown[i].display = "block"})]

\* the loop of filterFiles over the items, and the count it ends with
filterFiles(items, filter, value) ==
  LET searchTerm == lower(value)
      matches(item) ==
        LET repo == lower(item.repo)
            matchesFilter == filter = All \/ item.ext = filter
            matchesSearch == \/ includes(item.name, searchTerm)
                             \/ includes(item.path, searchTerm)
                             \/ includes(repo, searchTerm)
        IN matchesFilter /\ matchesSearch
      shown == [i \in DOMAIN items |->
                 [items[i] EXCEPT !.display =
                    IF matches(items[i]) THEN "block" ELSE "none"]]
  IN [items |-> shown,
      count |-> Cardinality({i \in DOMAIN shown : shown[i].display = "block"})]

\* String.prototype.localeCompare: letters first without regard to case,
\* then lower case before upper case; its sign
CharRank(c) ==
  CASE c = "." -> 1 [] c = "/" -> 2 [] c = "1" -> 3 [] c = "2" -> 4
    [] c \in {"a", "A"} -> 5 [] c \in {"b", "B"} -> 6 [] c = "d" -> 7
    [] c = "l" -> 8 [] c \in {"p", "P"} -> 9 [] c \in {"r", "R"} -> 10
    [] OTHER -> 11

CaseRank(c) == IF LowerChar(c) = c THEN 0 ELSE 1

RECURSIVE LexCompare(_, _, _)
LexCompare(a, b, level) ==
  IF a = <<>> /\ b = <<>> THEN 0
  ELSE IF a = <<>> THEN -1
  ELSE IF b = <<>> THEN 1
  ELSE LET x == IF level = 1 THEN CharRank(Head(a)) ELSE CaseRank(Head(a))
           y == IF level = 1 THEN CharRank(Head(b)) ELSE CaseRank(Head(b))
       IN IF x < y THEN -1 ELSE IF x > y THEN 1
          ELSE LexCompare(Tail(a), Tail(b), level)

localeCompare(a, b) ==
  IF LexCompare(a, b, 1) # 0 THEN LexCompare(a, b, 1) ELSE LexCompare(a, b, 2)

\* the comparator of sortFiles: negative when a goes first
Comparator(sortBy, a, b) ==
  CASE sortBy = "updated" -> CompareUpdated(b.updated, a.updated)
    [] sortBy = "name"    -> localeCompare(a.name, b.name)
    [] sortBy = "repo"    -> localeCompare(a.repo, b.repo)
    [] sortBy = "size"    -> b.size - a.size

\* Array.prototype.sort, stable: x goes behind every item that is not after it
InsertBy(sortBy, sorted, x) ==
  LET k == Cardinality({i \in DOMAIN sorted :
                          \A j \in 1..i : Comparator(sortBy, sorted[j], x) <= 0})
  IN SubSeq(sorted, 1, k) \o <<x>> \o SubSeq(sorted, k + 1, Len(sorted))

RECURSIVE SortItemsInto(_, _, _)
SortItemsInto(sortBy, sorted, rest) ==
  IF rest = <<>> THEN sorted
  ELSE SortItemsInto(sortBy, InsertBy(sortBy, sorted, Head(rest)), Tail(rest))

\* items.sort(...); items.forEach(item => list.appendChild(item))
sortFiles(items, sortBy) == SortItemsInto(sortBy, <<>>, items)

\* the extensions for which a filter button is built
Extensions(items) == {items[i].ext : i \in DOMAIN items} \ {<<>>}

\* Files of the remote side, as (repository, item)
RemoteFiles ==
  UNION {UNION {{<<r, Contents(r, p)[i]>> :
                   i \in {j \in DOMAIN Contents(r, p) :
                            Contents(r, p)[j].type = "file"}} :
                p \in DirPaths(r)} : r \in RepoNames}

\* The record lists a run can hand to the renderer, up to MaxItems records
RECURSIVE RecordLists(_)
RecordLists(n) ==
  IF n = 0 THEN {<<>>}
  ELSE RecordLists(n - 1) \cup
       {Append(l, FileInfo(f[1], f[2], Instant(0, u))) :
          l \in {x \in RecordLists(n - 1) : Len(x) = n - 1},
          f \in RemoteFiles, u \in {0, UsPerSec \div 2}}

NoRepeat(l) ==
  \A i, j \in DOMAIN l : i # j => <<l[i].repo, l[i].path>> # <<l[j].repo, l[j].path>>

\* the page as the browser loads it, written by a run that listed both
\* repositories: every item in the default display
InitUI ==
  /\ pc = "idle" /\ page = 1 /\ repo_idx = 1 /\ files = <<>>
  /\ file_idx = 1 /\ console = <<>> /\ requests = <<>>
  /\ repos = <<[name |-> RepoA], [name |-> RepoB]>>
  /\ now = Instant(1, 0)
  /\ all_files \in {sort_updated_desc(l) :
                      l \in {x \in RecordLists(MaxItems) : NoRepeat(x)}}
  /\ html = [written |-> TRUE] @@ RenderPage(repos, all_files, now)
  /\ fileList = [i \in DOMAIN html.items |-> html.items[i] @@ [display |-> ""]]
  /\ visibleCount = html.visible
  /\ searchInput = <<>>
  /\ currentFilter = All
  /\ currentSort = "updated"
  /\ IdleFmt

\* onkeyup of the search box, after its value became `value`
SearchKeyUp ==
  \E value \in SearchTerms :
    LET done == filterFiles(fileList, currentFilter, value) IN
    /\ searchInput' = value
    /\ fileList' = done.items
    /\ visibleCount' = done.count
    /\ UNCHANGED <<currentFilter, currentSort, pipeVars, fmtVars>>

\* a click on a filter button: setFilter(ext)
setFilter ==
  \E ext \in {All} \cup Extensions(fileList) :
    LET done == filterFiles(fileList, ext, searchInput) IN
    /\ currentFilter' = ext
    /\ fileList' = done.items
    /\ visibleCount' = done.count
    /\ UNCHANGED <<searchInput, currentSort, pipeVars, fmtVars>>

\* a click on a sort button: sortFiles(sortBy)
ClickSort ==
  \E sortBy \in SortKeys :
    /\ currentSort' = sortBy
    /\ fileList' = sortFiles(fileList, sortBy)
    /\ UNCHANGED <<searchInput, currentFilter, visibleCount, pipeVars, fmtVars>>

NextUI == SearchKeyUp \/ setFilter \/ ClickSort

SpecUI == InitUI /\ [][NextUI]_vars

-----------------------------------------------------------------------------
(* What the history of calls tells *)

Last(s) == s[Len(s)]

RECURSIVE Concat(_)
Concat(ss) == IF ss = <<>> THEN <<>> ELSE Head(ss) \o Concat(Tail(ss))

IsOk(resp) == resp # Raise /\ resp.status = 200
IsErrorStatus(resp) == resp # Raise /\ resp.status # 200

CallsOf(stage) == SelectSeq(requests, LAMBDA c : c.stage = stage)

Logged(line) == \E i \in DOMAIN console : console[i] = line

Terminated == pc \in {"done", "raised"}

\* the answers of a repository none of whose listings fails
AllOk(repo_name) ==
  [p \in DirPaths(repo_name) |-> [status |-> 200, items |-> Contents(repo_name, p)]]

\* the directories of a repository whose listing did not succeed
FailedPaths(repo_name) ==
  {c.path : c \in {x \in Range(requests) :
                     /\ x.stage = "contents"
                     /\ x.repo = repo_name
                     /\ ~IsOk(x.resp)}}

\* path lies in the subtree of directory dir
Under(path, dir) ==
  \/ dir = Root
  \/ /\ Len(dir) < Len(path)
     /\ SubSeq(path, 1, Len(dir)) = dir
     /\ path[Len(dir) + 1] = "/"

\* what the repository contributes had no listing failed, less the subtrees
\* of the listings that did fail
Expected(repo_name) ==
  SelectSeq(get_repo_files(repo_name, Root, AllOk(repo_name)).files,
            LAMBDA f : \A d \in FailedPaths(repo_name) : ~Under(f.path, d))

Keys(repo_name, fs) == [i \in DOMAIN fs |-> <<repo_name, fs[i].path>>]

\* the files of the first n repositories, in the order of collection
ExpectedUpTo(n) ==
  Concat([k \in 1..n |-> Keys(repos[k].name, Expected(repos[k].name))])

-----------------------------------------------------------------------------
(* C1 *)

\* C1: whatever the outcome of any network call (success, non-success status
\* or exception) at any of the three stages, the run surfaces no failure: when
\* it ends, it has reached the end and has written the output file.
C1_NoFailureSurfaces ==
  Terminated => (pc = "done" /\ html.written)

\* what the code does keep of it: a run fails only by an exception of the
\* repository listing, and otherwise goes on until the file is written
OnlyTheListingRaises ==
  /\ pc = "raised" => (Last(requests).stage = "repos" /\ Last(requests).resp = Raise)
  /\ pc = "done" => html.written
  /\ ~Terminated => ENABLED Next

-----------------------------------------------------------------------------
(* C2 *)

\* C2: when a directory listing does not succeed, the run still completes
\* (it has not raised, and goes on until it is done), the files taken from a
\* repository are those it would give had no listing failed less the failed
\* subtrees, in the same order, and so are the records and rendered entries.
C2_FailedListingIsolated ==
  /\ pc = "commits" =>
       /\ files = Expected(repos[repo_idx].name)
       /\ [i \in DOMAIN all_files |-> <<all_files[i].repo, all_files[i].path>>]
            = ExpectedUpTo(repo_idx - 1)
               \o SubSeq(Keys(repos[repo_idx].name, files), 1, file_idx - 1)
  /\ pc = "scan" =>
       [i \in DOMAIN all_files |-> <<all_files[i].repo, all_files[i].path>>]
         = ExpectedUpTo(repo_idx - 1)
  /\ pc = "done" =>
       /\ Len(html.items) = Len(ExpectedUpTo(Len(repos)))
       /\ {html.items[i].href : i \in DOMAIN html.items}
            = Range(ExpectedUpTo(Len(repos)))
  /\ (\E c \in Range(requests) : c.stage = "contents" /\ IsErrorStatus(c.resp)) =>
       /\ pc # "raised"
       /\ pc # "done" => ENABLED Next

\* a sub-directory listing answered 403, the root file of the same repository
\* and the file of the other repository are both on the page
C2_Witness ==
  /\ pc = "done"
  /\ \E c \in Range(requests) :
       c.stage = "contents" /\ c.repo = RepoA /\ c.path = DirD
       /\ IsErrorStatus(c.resp)
  /\ {html.items[i].href : i \in DOMAIN html.items}
       = {<<RepoA, <<"A", ".", "P">>>>, <<RepoB, <<"a", ".", "p">>>>}

-----------------------------------------------------------------------------
(* C5 *)

\* C5: the listing asks for pages 1, 2, 3, ... in order; a page that is empty
\* or has a non-success status is the last one asked for; what is returned is
\* the concatenation of the pages before it; a non-success status is printed.
C5_Pagination ==
  LET R == CallsOf("repos")
      stops(c) == ~IsOk(c.resp) \/ c.resp.data = <<>>
      pages(n) == Concat([i \in 1..n |-> R[i].resp.data])
  IN
  /\ \A i \in DOMAIN R : R[i].page = i
  /\ \A i \in DOMAIN R : i < Len(R) => ~stops(R[i])
  /\ pc = "repos" => page = Len(R) + 1 /\ repos = pages(Len(R))
  /\ pc # "repos" =>
       /\ stops(Last(R))
       /\ repos = pages(Len(R) - 1)
       /\ IsErrorStatus(Last(R).resp) =>
            Logged(Line("Error fetching repos", <<Last(R).resp.status>>))

\* two pages of one repository each, then a 403 on page 3: both are kept
C5_Witness ==
  LET R == CallsOf("repos") IN
  /\ pc = "scan"
  /\ Len(R) = 3
  /\ IsErrorStatus(R[3].resp)
  /\ Len(repos) = 2
  /\ Logged(Line("Error fetching repos", <<403>>))

-----------------------------------------------------------------------------
(* C6 *)

\* the console line that reports the failure of a call
ErrorLine(c) ==
  CASE c.stage = "repos"    -> Line("Error fetching repos", <<c.resp.status>>)
    [] c.stage = "contents" -> Line("Error fetching files from", <<c.repo, c.path>>)
    [] c.stage = "commits"  -> Line("Error fetching commit for", <<c.path>>)

\* C6: every non-success HTTP status, at the repository listing, at a
\* directory listing or at a commit lookup, has a line on the console.
C6_EveryErrorStatusLogged ==
  \A c \in Range(requests) : IsErrorStatus(c.resp) => Logged(ErrorLine(c))

-----------------------------------------------------------------------------
(* C3 *)

\* one entry per enumerated file, none dropped or doubled, and both counts of
\* the header equal to the number of entries
EntriesMatch ==
  /\ Len(html.items) = Len(CallsOf("commits"))
  /\ \A c \in Range(CallsOf("commits")) :
       Cardinality({i \in DOMAIN html.items :
                      html.items[i].href = <<c.repo, c.path>>}) = 1
  /\ html.total = Len(html.items)
  /\ html.visible = Len(html.items)
  /\ (repos = <<>> \/ CallsOf("commits") = <<>>) =>
       html.total = 0 /\ html.visible = 0 /\ html.items = <<>>

\* C3: the output file is always produced, with one entry per file
\* enumerated (whether or not its commit lookup succeeded) and with Total
\* Files and Visible Files equal to the number of entries.
C3_OutputAlwaysProduced ==
  Terminated => (html.written /\ EntriesMatch)

\* the part of C3 that the code keeps: every file it does write is as said
EntriesMatchWhenWritten == html.written => EntriesMatch

-----------------------------------------------------------------------------
(* C4 *)

Bijections(n) == {f \in [1..n -> 1..n] : \A i, j \in 1..n : i # j => f[i] # f[j]}

\* items lists the records of collected, by descending data-updated, equal
\* timestamps in the order of collection
StableDescending(collected, items) ==
  /\ Len(items) = Len(collected)
  /\ \A i \in 1..(Len(items) - 1) :
       CompareUpdated(items[i].updated, items[i + 1].updated) >= 0
  /\ \E f \in Bijections(Len(collected)) :
       /\ \A i \in DOMAIN items :
            /\ items[i].href = collected[f[i]].url
            /\ items[i].updated = timestamp(collected[f[i]].updated_at)
       /\ \A i, j \in DOMAIN items :
            (i < j /\ items[i].updated = items[j].updated) => f[i] < f[j]

\* C4: the rendered list is the collected records sorted by timestamp
\* descending, totally and stably: adjacent data-updated values never
\* increase, the entries are a permutation of the records, and records with
\* equal timestamps keep their order of collection.
C4_SortedStable ==
  [][(pc = "scan" /\ pc' = "done") => StableDescending(all_files, html'.items)]_vars

\* the order of collection of a finished run: one commit lookup per record
CollectedKeys ==
  [i \in DOMAIN CallsOf("commits") |->
     <<CallsOf("commits")[i].repo, CallsOf("commits")[i].path>>]

\* three records collected with timestamps T-1, T-3, T-2 are rendered as
\* T-1, T-2, T-3
C4_Witness ==
  /\ pc = "done"
  /\ Len(html.items) = 3
  /\ CompareUpdated(html.items[1].updated, html.items[2].updated) > 0
  /\ CompareUpdated(html.items[2].updated, html.items[3].updated) > 0
  /\ html.items[1].href = CollectedKeys[1]
  /\ html.items[2].href = CollectedKeys[3]
  /\ html.items[3].href = CollectedKeys[2]

-----------------------------------------------------------------------------
(* C7 *)

\* among the calls, the lookup of the file of entry it found a commit
DiscoveredIn(calls, it) ==
  \E c \in Range(calls) :
    /\ c.stage = "commits"
    /\ <<c.repo, c.path>> = it.href
    /\ IsOk(c.resp)
    /\ c.resp.commits # <<>>

Discovered(it) == DiscoveredIn(requests, it)

\* C7 as stated: a record's timestamp is the commit's when there is one and
\* the clock's otherwise, and so on the page every file without a discovered
\* commit stands before every file with one.
C7_UndiscoveredAlwaysFirst ==
  pc = "done" =>
    \A i, j \in DOMAIN html.items :
      (~Discovered(html.items[i]) /\ Discovered(html.items[j])) => i < j

\* C7 amended: a record's timestamp is the commit's when the lookup found one
\* and the clock reading taken when the record is built otherwise; on the page
\* a file without a discovered commit stands before every file whose commit
\* timestamp is earlier than that clock reading.
C7_FallbackAndOrder ==
  [][ /\ (pc = "commits" /\ Len(all_files') = Len(all_files) + 1) =>
          LET c == Last(requests')
              f == Last(all_files')
          IN /\ c.stage = "commits"
             /\ <<c.repo, c.path>> = <<f.repo, f.path>>
             /\ IF IsOk(c.resp) /\ c.resp.commits # <<>>
                THEN f.updated_at = Instant(c.resp.commits[1].date, 0)
                ELSE f.updated_at = now' /\ NotAfter(now, now')
      /\ pc' = "done" =>
          \A i, j \in DOMAIN html'.items :
            ( /\ ~DiscoveredIn(requests', html'.items[i])
              /\ DiscoveredIn(requests', html'.items[j])
              /\ CompareUpdated(html'.items[j].updated, html'.items[i].updated) < 0 )
            => i < j
    ]_vars

\* a file whose lookup answered 403 is rendered before a file with a commit
\* earlier than the clock, though it was collected after it
C7_Witness ==
  /\ pc = "done"
  /\ Len(html.items) >= 2
  /\ ~Discovered(html.items[1])
  /\ Discovered(html.items[2])
  /\ html.items[1].href = CollectedKeys[2]
  /\ html.items[2].href = CollectedKeys[1]
  /\ \E c \in Range(CallsOf("commits")) :
       <<c.repo, c.path>> = html.items[1].href /\ IsErrorStatus(c.resp)

-----------------------------------------------------------------------------
(* C8, C9 *)

\* the whole seconds of the timedelta given to the formatter
WholeSeconds == delta.days * 86400 + delta.seconds

Formatted == result # ""

\* C8: below 60 seconds the formatter says "Just now"; exactly 60 is
\* "1 minute ago" and exactly 3600 is "1 hour ago"; from 60 to below 3600 the
\* unit is minutes and the number floor(s/60), from 3600 to below 86400 the
\* unit is hours and the number floor(s/3600).
C8_Thresholds ==
  Formatted =>
    LET s == WholeSeconds IN
    /\ s < 60 => result = "Just now"
    /\ s = 60 => result = "1 minute ago"
    /\ s = 3600 => result = "1 hour ago"
    /\ (60 <= s /\ s < 3600) =>
         result \in {ToString(s \div 60) \o " minute ago",
                     ToString(s \div 60) \o " minutes ago"}
    /\ (3600 <= s /\ s < 86400) =>
         result \in {ToString(s \div 3600) \o " hour ago",
                     ToString(s \div 3600) \o " hours ago"}

\* exactly 3600 seconds and a fraction were formatted as one hour
C8_Witness ==
  /\ WholeSeconds = 3600
  /\ delta.microseconds > 0
  /\ result = "1 hour ago"

\* C9: from 86400 seconds on the formatter says "N day ago" when
\* N = floor(s/86400) is 1 and "N days ago" when N > 1, nothing else.
C9_Days ==
  (Formatted /\ WholeSeconds >= 86400) =>
    LET N == WholeSeconds \div 86400 IN
    result = ToString(N) \o (IF N = 1 THEN " day ago" ELSE " days ago")

\* the last second of the first day is singular
C9_Witness ==
  /\ WholeSeconds = 2 * 86400 - 1
  /\ result = "1 day ago"

-----------------------------------------------------------------------------
(* C10 *)

Displayed == {i \in DOMAIN fileList : Shown(fileList[i])}

MatchesFilter(li) == currentFilter = All \/ li.ext = currentFilter

\* the entries of the list, whatever their display
Entries == [i \in DOMAIN fileList |->
              [f \in DOMAIN fileList[i] \ {"display"} |-> fileList[i][f]]]

\* the counter is the number of displayed entries, and the list holds the
\* entries of the page as written, each once
CounterAndEntries ==
  /\ visibleCount = Cardinality(Displayed)
  /\ Len(Entries) = Len(html.items)
  /\ Range(Entries) = Range(html.items)

\* C10 as stated: the counter is the number of displayed entries; an entry is
\* displayed exactly when it matches the extension filter and the search term
\* is a substring of its name, its path or its repository (as written on the
\* page or as held in the data attributes); sorting only reorders.
C10_SubstringAsTyped ==
  /\ CounterAndEntries
  /\ \A i \in DOMAIN fileList :
       LET li == fileList[i] IN
       Shown(li) <=>
         /\ MatchesFilter(li)
         /\ \/ includes(li.text, searchInput)
            \/ includes(li.name, searchInput)
            \/ includes(li.href[2], searchInput)
            \/ includes(li.path, searchInput)
            \/ includes(li.repo, searchInput)

\* C10 amended: the same, with the search matched without regard to case: the
\* lower-cased search term is a substring of the lower-cased name, path or
\* repository of the entry.
C10_SubstringIgnoringCase ==
  /\ CounterAndEntries
  /\ \A i \in DOMAIN fileList :
       LET li == fileList[i] IN
       Shown(li) <=>
         /\ MatchesFilter(li)
         /\ \/ includes(lower(li.text), lower(searchInput))
            \/ includes(lower(li.href[2]), lower(searchInput))
            \/ includes(lower(li.repo), lower(searchInput))

\* "A" is typed, the list is sorted by name: the entry a.p of repository r2
\* is displayed, behind the hidden and newer .r, and the counter says one
C10_Witness ==
  /\ searchInput = <<"A">>
  /\ currentSort = "name"
  /\ currentFilter = All
  /\ Len(fileList) = 2
  /\ ~Shown(fileList[1])
  /\ Shown(fileList[2])
  /\ fileList[2].repo = RepoB
  /\ CompareUpdated(fileList[1].updated, fileList[2].updated) < 0
  /\ visibleCount = 1

====
